---------------------------- MODULE Spec2Model ----------------------------
(***************************************************************************)
(* Model of the OpenSecHub polling schedulers:                             *)
(*   enrich-ai-scheduler.py, enrich-ai.py, local_scheduler.py (polling     *)
(*   loops with a signal handler) and git-repo-fetch.py (one batch).       *)
(*                                                                         *)
(* Time is the integer number of seconds since main() read start_time.     *)
(* Only a dispatch (requests.post / client.post) and time.sleep take time; *)
(* every other statement is instantaneous.  A string is modelled by the    *)
(* set of marker tokens it contains, so that `tok in s` is tok \in s and   *)
(* `not s` is s = {}.                                                      *)
(***************************************************************************)
EXTENDS Integers, Sequences, FiniteSets, TLC

VARIABLES
    script,              \* which script's main() is running
    config,              \* the configuration the process was started with
    pc,                  \* position of main()
    now,                 \* time.time() - start_time
    end_time,            \* end_time of main(), Infinity for float('inf')
    shutdown_requested,  \* the global flag written by signal_handler
    sleep_remaining,     \* sleep_remaining of the chunked sleep loop
    chunk_sleep,         \* the chunk handed to time.sleep
    exit_status,         \* process exit status, read when pc = "exited"
    killed,              \* the process was ended by a signal it does not handle
    resp,                \* what the last dispatch received
    outcome,             \* what the last dispatch reported (return value, log lines)
    fault,               \* exception that left the dispatch step, "none" if none
    validated,           \* result of configuration validation
    fetched,             \* the batch-selection query was issued
    dispatched,          \* some dispatch was started
    sigTime,             \* instant of the first signal, NoTime before it
    sigPc,               \* what main() was doing at that instant
    sigRemaining,        \* time the in-flight dispatch still took after the signal
    twin,                \* control state of a second run that differs in outcomes only
    batch_size,          \* git-repo-fetch: batch_size after parsing
    p_limit,             \* git-repo-fetch: p_limit sent with the RPC
    tools_to_process,    \* git-repo-fetch: the list being dispatched
    idx,                 \* git-repo-fetch: position of the for loop
    calls,               \* git-repo-fetch: records for which client.post was called
    reported,            \* git-repo-fetch: what was logged for each of these calls
    rpc,                 \* git-repo-fetch: how the batch-selection RPC ended
    loop_fault,          \* exception raised in the loop body outside the dispatcher
    flag_starts,         \* dispatches started with shutdown_requested already set
    slept,               \* seconds slept since the last dispatch returned
    chunks               \* time.sleep calls since the last dispatch returned

vars == <<script, config, pc, now, end_time, shutdown_requested, sleep_remaining,
          chunk_sleep, exit_status, killed, resp, outcome, fault, validated,
          fetched, dispatched, sigTime, sigPc, sigRemaining, twin,
          batch_size, p_limit, tools_to_process, idx, calls,
          reported, rpc, loop_fault, flag_starts, slept, chunks>>

-----------------------------------------------------------------------------
(* Program constants *)

EnrichAiScheduler == "enrich-ai-scheduler"
EnrichAi == "enrich-ai"
LocalScheduler == "local_scheduler"
GitRepoFetch == "git-repo-fetch"

PollingScripts == {EnrichAiScheduler, EnrichAi, LocalScheduler}

PROJECT_ID == "oztlbsrmkzesflszmsem"
JWT_HEADER == "eyJhbGciOiJIUzI1NiIsInR5cCI6IkpXVCJ9"
URL_PLACEHOLDER == "your_supabase_project_id"
KEY_PLACEHOLDER == "YOUR_SUPABASE_ANON_KEY"

SecondsPerHour == 3600
SleepChunk == 10
SchedulerTimeout == 45
EnrichTimeout == 45
LocalTimeout == 30
BatchTimeout == 600
ENRICH_CALL_INTERVAL_SECONDS == 300
ENRICH_TOTAL_RUN_DURATION_HOURS == 1
SLEEP_INTERVAL_SECONDS == 180
RUN_DURATION_HOURS == 8
DefaultBatchSize == 10

-----------------------------------------------------------------------------
(* Bounds of the model *)

\* An unbounded run (end_time = Infinity) is followed up to this instant.
MaxClock == 600
\* A first signal is delivered up to this instant of a run.
MaxSignalClock == 400
\* Longest list the batch-selection RPC returns.
MaxRecords == 3

\* float('inf'): larger than every clock reading
Infinity == -1
\* no instant recorded yet
NoTime == 0 - 1

Min2(a, b) == IF a <= b THEN a ELSE b
Max2(a, b) == IF a >= b THEN a ELSE b

\* t < e and t >= e for e possibly float('inf')
Lt(t, e) == IF e = Infinity THEN TRUE ELSE t < e
Ge(t, e) == ~Lt(t, e)


-----------------------------------------------------------------------------
(* Configurations the scripts are started with *)

Falsy(s) == s = {}

\* ENRICH_AI_FUNCTION_URL and SUPABASE_ANON_KEY: empty, the value shipped in the
\* script, the placeholder its validate_config names, a value of the user's own
SchedulerUrls == {{}, {PROJECT_ID}, {"example-project"}}
SchedulerKeys == {{}, {JWT_HEADER}, {"service-key"}}
EnrichUrls == {{}, {PROJECT_ID}, {URL_PLACEHOLDER}}
EnrichKeys == {{}, {JWT_HEADER}, {KEY_PLACEHOLDER}}
Intervals == {0, 5, 25, 300}
Hours == {0 - 1, 0, 1}

\* PROCESSING_BATCH_SIZE as found in the environment
BatchEnvs ==
    {[kind |-> "unset", val |-> 0], [kind |-> "invalid", val |-> 0]}
    \cup {[kind |-> "int", val |-> v] : v \in {0 - 3, 0, 1, 2}}

UnsetBatchEnv == [kind |-> "unset", val |-> 0]

Configs(s) ==
    CASE s = EnrichAiScheduler ->
           {[url |-> u, key |-> k, interval |-> i, hours |-> h,
             fn_url |-> {}, batch_env |-> UnsetBatchEnv] :
               u \in SchedulerUrls, k \in SchedulerKeys,
               i \in Intervals, h \in Hours}
      [] s = EnrichAi ->
           {[url |-> u, key |-> k,
             interval |-> ENRICH_CALL_INTERVAL_SECONDS,
             hours |-> ENRICH_TOTAL_RUN_DURATION_HOURS,
             fn_url |-> {}, batch_env |-> UnsetBatchEnv] :
               u \in EnrichUrls, k \in EnrichKeys}
      [] s = LocalScheduler ->
           {[url |-> u, key |-> k,
             interval |-> SLEEP_INTERVAL_SECONDS,
             hours |-> RUN_DURATION_HOURS,
             fn_url |-> {}, batch_env |-> UnsetBatchEnv] :
               u \in {{}, {"example-project"}}, k \in {{}, {"service-key"}}}
      [] s = GitRepoFetch ->
           {[url |-> u, key |-> k, interval |-> 0, hours |-> 0,
             fn_url |-> f, batch_env |-> b] :
               u \in {{}, {"example-project"}}, k \in {{}, {"service-key"}},
               f \in {{}, {"example-project"}}, b \in BatchEnvs}

-----------------------------------------------------------------------------
(* validate_config *)

ValidateScheduler(c) ==
    /\ ~(Falsy(c.url) \/ PROJECT_ID \notin c.url)
    /\ ~(Falsy(c.key) \/ JWT_HEADER \notin c.key)
    /\ ~(c.interval <= 0)
    /\ ~(c.hours < 0)

ValidateEnrich(c) ==
    /\ ~(Falsy(c.url) \/ URL_PLACEHOLDER \in c.url)
    /\ ~(Falsy(c.key) \/ KEY_PLACEHOLDER \in c.key)

ValidateLocal(c) == ~Falsy(c.url) /\ ~Falsy(c.key)

\* git-repo-fetch: all([supabase_url, supabase_service_key, supabase_function_url])
CriticalEnvPresent(c) == ~Falsy(c.url) /\ ~Falsy(c.key) /\ ~Falsy(c.fn_url)

validate_config(s, c) ==
    CASE s = EnrichAiScheduler -> ValidateScheduler(c)
      [] s = EnrichAi -> ValidateEnrich(c)
      [] s = LocalScheduler -> ValidateLocal(c)
      [] s = GitRepoFetch -> CriticalEnvPresent(c)

\* the truth value the script gives its run duration
DurationBounded(s, c) ==
    IF s = EnrichAiScheduler THEN c.hours > 0 ELSE c.hours # 0

EndTime(s, c, start_time) ==
    IF DurationBounded(s, c) THEN start_time + c.hours * SecondsPerHour
    ELSE Infinity

Timeout(s) ==
    CASE s = EnrichAiScheduler -> SchedulerTimeout
      [] s = EnrichAi -> EnrichTimeout
      [] s = LocalScheduler -> LocalTimeout
      [] s = GitRepoFetch -> BatchTimeout


-----------------------------------------------------------------------------
(* The dispatcher: one HTTP call and the classification of what came back *)

Statuses == {200, 304, 500}
\* dict: a JSON object without the marker; dict_marker: a JSON object with the
\* script's marker ("message" = "No pending tools found to process." for the
\* polling scripts, a truthy "skipped" for git-repo-fetch); non_dict: JSON that
\* is no object (list, string, number, null); not_json: undecodable.
Bodies == {"dict", "dict_marker", "non_dict", "not_json"}
TransportFailures == {"timeout", "connfail", "other"}

Responses ==
    {[transport |-> t, status |-> 0, body |-> "none"] : t \in TransportFailures}
    \cup {[transport |-> "ok", status |-> st, body |-> b] :
            st \in Statuses, b \in Bodies}

NoResp == [transport |-> "none", status |-> 0, body |-> "none"]
NoOutcome == [ret |-> "None", logs |-> {}, caught |-> "none"]

\* Response.raise_for_status of requests raises for 4xx and 5xx only
RaisesForStatus(st) == 400 <= st /\ st < 600
\* Response.is_success of httpx
IsSuccess(st) == 200 <= st /\ st <= 299

\* isinstance(exc, cls) for the exception classes the scripts meet
IsInstance(exc, cls) ==
    CASE cls = "Exception" -> TRUE
      [] cls = "requests.RequestException" ->
           exc \in {"requests.Timeout", "requests.ConnectionError",
                    "requests.HTTPError", "requests.JSONDecodeError"}
      [] cls = "json.JSONDecodeError" ->
           exc \in {"json.JSONDecodeError", "requests.JSONDecodeError"}
      [] cls = "httpx.RequestError" ->
           exc \in {"httpx.TimeoutException", "httpx.ConnectError"}
      [] OTHER -> exc = cls

\* whether the script imports the json module it names
JsonImported(s) == s # EnrichAi

\* what the HTTP call itself raises
PostRaised(s, r) ==
    CASE r.transport = "timeout" ->
           IF s = GitRepoFetch THEN "httpx.TimeoutException" ELSE "requests.Timeout"
      [] r.transport = "connfail" ->
           IF s = GitRepoFetch THEN "httpx.ConnectError" ELSE "requests.ConnectionError"
      [] r.transport = "other" -> "RuntimeError"
      [] OTHER -> "none"

\* enrich-ai-scheduler, enrich-ai: the inner try (response.json(), json.dumps, .get)
InnerRaised(s, r) ==
    IF r.body = "not_json" THEN "requests.JSONDecodeError"
    ELSE IF ~JsonImported(s) THEN "NameError"
    ELSE IF r.body = "non_dict" THEN "AttributeError"
    ELSE "none"

\* ... and what is left of it after `except json.JSONDecodeError:`; naming
\* json.JSONDecodeError without the module imported raises NameError
InnerPropagated(s, exc) ==
    IF exc = "none" THEN "none"
    ELSE IF ~JsonImported(s) THEN "NameError"
    ELSE IF IsInstance(exc, "json.JSONDecodeError") THEN "none"
    ELSE exc

\* the exception that leaves the body of the dispatcher's try statement
BodyRaised(s, r) ==
    IF PostRaised(s, r) # "none" THEN PostRaised(s, r)
    ELSE CASE s \in {EnrichAiScheduler, EnrichAi} ->
                IF RaisesForStatus(r.status) THEN "requests.HTTPError"
                ELSE InnerPropagated(s, InnerRaised(s, r))
           [] s = LocalScheduler ->
                IF RaisesForStatus(r.status) THEN "requests.HTTPError" ELSE "none"
           [] s = GitRepoFetch ->
                IF IsSuccess(r.status) /\ r.body = "non_dict"
                THEN "AttributeError" ELSE "none"

\* the lines the body of the try statement logs before it ends or raises
BodyLogs(s, r) ==
    IF PostRaised(s, r) # "none" THEN {}
    ELSE CASE s \in {EnrichAiScheduler, EnrichAi} ->
                IF RaisesForStatus(r.status) THEN {}
                ELSE {"call successful"}
                     \cup (IF InnerRaised(s, r) = "none" /\ r.body = "dict_marker"
                           THEN {"no pending tools"} ELSE {})
                     \cup (IF InnerRaised(s, r) # "none"
                              /\ InnerPropagated(s, InnerRaised(s, r)) = "none"
                           THEN {"response text (not JSON)"} ELSE {})
           [] s = LocalScheduler ->
                IF RaisesForStatus(r.status) THEN {} ELSE {"call successful"}
           [] s = GitRepoFetch ->
                (IF r.body = "not_json" THEN {"non-JSON response"} ELSE {})
                \cup (IF ~IsSuccess(r.status) THEN {"error processing"}
                      ELSE IF r.body = "non_dict" THEN {}
                      ELSE IF r.body = "dict_marker" THEN {"skipped"}
                      ELSE {"successfully processed"})

\* the except clauses without the final `except Exception`
HandlersNoCatchAll(s) ==
    CASE s \in {EnrichAiScheduler, EnrichAi} ->
           <<"requests.Timeout", "requests.HTTPError", "requests.RequestException">>
      [] s = LocalScheduler -> <<"requests.RequestException">>
      [] s = GitRepoFetch -> <<"httpx.TimeoutException", "httpx.RequestError">>

\* the except clauses of the dispatcher's try statement, in order
Handlers(s) ==
    CASE s \in {EnrichAiScheduler, EnrichAi} ->
           <<"requests.Timeout", "requests.HTTPError",
             "requests.RequestException", "Exception">>
      [] s = LocalScheduler -> <<"requests.RequestException", "Exception">>
      [] s = GitRepoFetch ->
           <<"httpx.TimeoutException", "httpx.RequestError", "Exception">>

\* index of the first except clause that matches, 0 if none does
CaughtBy(hs, exc) ==
    LET matching == {i \in 1..Len(hs) : IsInstance(exc, hs[i])}
    IN IF matching = {} THEN 0
       ELSE CHOOSE i \in matching : \A j \in matching : i <= j

HandlerLog(cls) ==
    CASE cls \in {"requests.Timeout", "httpx.TimeoutException"} -> "timed out"
      [] cls = "requests.HTTPError" -> "HTTP error"
      [] cls \in {"requests.RequestException", "httpx.RequestError"} -> "request error"
      [] OTHER -> "unexpected error"

\* One dispatch: invoke_enrich_ai_function(), run_github_sync_function(), or
\* the try statement of git-repo-fetch's for loop.  raised is the exception
\* that leaves the dispatcher ("none": it ended normally), ret its return
\* value (git-repo-fetch's step returns nothing), logs what it logged and
\* caught the exception one of its except clauses handled.
Dispatch(s, r) ==
    LET exc == BodyRaised(s, r)
        hs == Handlers(s)
        i == CaughtBy(hs, exc)
    IN IF exc = "none"
       THEN [raised |-> "none",
             ret |-> IF s = GitRepoFetch THEN "None" ELSE "True",
             logs |-> BodyLogs(s, r), caught |-> "none"]
       ELSE IF i = 0
       THEN [raised |-> exc, ret |-> "None", logs |-> BodyLogs(s, r),
             caught |-> "none"]
       ELSE [raised |-> "none",
             ret |-> IF s = GitRepoFetch THEN "None" ELSE "False",
             logs |-> BodyLogs(s, r) \cup {HandlerLog(hs[i])},
             caught |-> exc]

\* git-repo-fetch: which of its log lines closed the step for one record:
\* "Successfully processed", "Skipped", "Error processing", or the line of
\* one of the except clauses
ItemResult(res) ==
    CASE "successfully processed" \in res.logs -> "processed"
      [] "skipped" \in res.logs -> "skipped"
      [] "error processing" \in res.logs -> "error"
      [] OTHER -> "failed"

\* the for loop of git-repo-fetch ending at the first call that was no success
AfterDispatchPcAbortOnError(s, res) ==
    IF res.raised = "none"
    THEN (IF s = GitRepoFetch
          THEN (IF ItemResult(res) \in {"error", "failed"} THEN "batch_done"
                ELSE "for_loop")
          ELSE "post_dispatch")
    ELSE IF s \in {EnrichAiScheduler, EnrichAi} THEN "critical_error"
    ELSE "crashed"

\* main() calling the dispatcher again at once when it returned False
AfterDispatchPcRetry(s, res) ==
    IF res.raised = "none"
    THEN (IF s = GitRepoFetch THEN "for_loop"
          ELSE IF res.ret = "False" THEN "call" ELSE "post_dispatch")
    ELSE IF s \in {EnrichAiScheduler, EnrichAi} THEN "critical_error"
    ELSE "crashed"

\* where main() continues after a dispatch: the return value is not read;
\* an exception is caught by main()'s try statement in enrich-ai-scheduler and
\* enrich-ai and is uncaught in local_scheduler and git-repo-fetch
AfterDispatchPc(s, res) ==
    IF res.raised = "none"
    THEN (IF s = GitRepoFetch THEN "for_loop" ELSE "post_dispatch")
    ELSE IF s \in {EnrichAiScheduler, EnrichAi} THEN "critical_error"
    ELSE "crashed"


-----------------------------------------------------------------------------
(* Inputs of the environment *)

\* how long one dispatch takes; never longer than the request timeout
DispatchDurations(s) ==
    IF s = GitRepoFetch THEN {0} ELSE {0, 10, Timeout(s)}

\* how far into a sleep chunk or a dispatch a signal arrives
SignalOffsets == {0, 2, 10}

\* a record returned by get_existing_tools_to_update_batched
Records == [raw_tool_id : BOOLEAN, html_url : BOOLEAN]

RECURSIVE SeqsUpTo(_, _)
SeqsUpTo(S, n) ==
    IF n = 0 THEN {<<>>}
    ELSE SeqsUpTo(S, n - 1)
         \cup {Append(q, x) : q \in {t \in SeqsUpTo(S, n - 1) : Len(t) = n - 1}, x \in S}

RecordLists == SeqsUpTo(Records, MaxRecords)

\* what supabase.rpc(...).execute() does
RpcKinds == {"http_status_error", "exception", "error_attr", "no_data_attr",
             "data_dict", "data_list"}

-----------------------------------------------------------------------------
(* Initial state: main() has been entered and, in the polling scripts, has
   installed signal_handler for SIGINT and SIGTERM *)

Scripts == PollingScripts \cup {GitRepoFetch}

Init ==
    /\ script \in Scripts
    /\ config \in Configs(script)
    /\ pc = "start"
    /\ now = 0
    /\ end_time = Infinity
    /\ shutdown_requested = FALSE
    /\ sleep_remaining = 0
    /\ chunk_sleep = 0
    /\ exit_status = 0
    /\ killed = FALSE
    /\ resp = NoResp
    /\ outcome = NoOutcome
    /\ fault = "none"
    /\ validated = "pending"
    /\ fetched = FALSE
    /\ dispatched = FALSE
    /\ sigTime = NoTime
    /\ sigPc = "none"
    /\ sigRemaining = 0
    /\ twin = [pc |-> "start", ret |-> "None"]
    /\ batch_size = 0
    /\ p_limit = 0
    /\ tools_to_process = <<>>
    /\ idx = 0
    /\ calls = <<>>
    /\ reported = <<>>
    /\ rpc = "none"
    /\ loop_fault = "none"
    /\ flag_starts = 0
    /\ slept = 0
    /\ chunks = 0

batchVars == <<batch_size, p_limit, tools_to_process, idx, calls>>
sigVars == <<sigTime, sigPc, sigRemaining>>
lastVars == <<resp, outcome>>
histVars == <<reported, rpc, loop_fault, flag_starts, slept, chunks>>

-----------------------------------------------------------------------------
(* The polling scripts *)

\* main(): validate_config(), sys.exit(1) on failure, else start_time/end_time
Validate ==
    /\ script \in PollingScripts
    /\ pc = "start"
    /\ IF validate_config(script, config)
       THEN /\ validated' = "ok"
            /\ end_time' = EndTime(script, config, now)
            /\ pc' = "loop_check"
            /\ UNCHANGED exit_status
       ELSE /\ validated' = "rejected"
            /\ exit_status' = 1
            /\ pc' = "exited"
            /\ UNCHANGED end_time
    /\ twin' = [twin EXCEPT !.pc = pc']
    /\ UNCHANGED <<script, config, now, shutdown_requested, sleep_remaining,
                   chunk_sleep, killed, fault, fetched, dispatched>>
    /\ UNCHANGED <<lastVars, sigVars, batchVars>>
    /\ UNCHANGED histVars

\* the loop condition with the test of the shutdown flag dropped
WhileConditionNoShutdown == Lt(now, end_time)

\* the loop condition with the deadline test dropped
WhileConditionNoDeadline == ~shutdown_requested

\* while time.time() < end_time and not shutdown_requested:
WhileCondition == Lt(now, end_time) /\ ~shutdown_requested

LoopCheck ==
    /\ script \in PollingScripts
    /\ pc = "loop_check"
    /\ pc' = IF WhileCondition THEN "call" ELSE "after_loop"
    /\ twin' = [twin EXCEPT !.pc = pc']
    /\ UNCHANGED <<script, config, now, end_time, shutdown_requested,
                   sleep_remaining, chunk_sleep, exit_status, killed, fault,
                   validated, fetched, dispatched>>
    /\ UNCHANGED <<lastVars, sigVars, batchVars>>
    /\ UNCHANGED histVars

\* the dispatcher is entered and sends its request
DispatchStart ==
    /\ script \in PollingScripts
    /\ pc = "call"
    /\ pc' = "dispatching"
    /\ dispatched' = TRUE
    /\ flag_starts' = IF shutdown_requested THEN Min2(flag_starts + 1, 2)
                      ELSE flag_starts
    /\ twin' = [twin EXCEPT !.pc = pc']
    /\ UNCHANGED <<script, config, now, end_time, shutdown_requested,
                   sleep_remaining, chunk_sleep, exit_status, killed, fault,
                   validated, fetched>>
    /\ UNCHANGED <<lastVars, sigVars, batchVars>>
    /\ UNCHANGED <<reported, rpc, loop_fault, slept, chunks>>

\* the request ends (response, timeout or failure) after d seconds and the
\* dispatcher classifies it; the twin run receives r2 at the same instant
DispatchReturn ==
    /\ pc = "dispatching"
    /\ \E r \in Responses, res2 \in {Dispatch(script, r2) : r2 \in Responses},
          d \in DispatchDurations(script) :
         /\ r.transport = "timeout" => d = Timeout(script)
         /\ sigPc = "dispatching" => now + d >= sigTime
         /\ end_time = Infinity => now + d <= MaxClock
         /\ now' = now + d
         /\ resp' = r
         /\ outcome' = [ret |-> Dispatch(script, r).ret,
                        logs |-> Dispatch(script, r).logs,
                        caught |-> Dispatch(script, r).caught]
         /\ fault' = Dispatch(script, r).raised
         /\ pc' = AfterDispatchPc(script, Dispatch(script, r))
         /\ twin' = [pc |-> AfterDispatchPc(script, res2), ret |-> res2.ret]
         /\ sigRemaining' = IF sigPc = "dispatching" THEN now + d - sigTime
                            ELSE sigRemaining
         /\ reported' = IF script = GitRepoFetch
                        THEN Append(reported, ItemResult(Dispatch(script, r)))
                        ELSE reported
    /\ idx' = IF script = GitRepoFetch THEN idx + 1 ELSE idx
    /\ slept' = 0
    /\ chunks' = 0
    /\ UNCHANGED <<rpc, loop_fault, flag_starts>>
    /\ UNCHANGED <<script, config, end_time, shutdown_requested,
                   sleep_remaining, chunk_sleep, exit_status, killed,
                   validated, fetched, dispatched, sigTime, sigPc,
                   batch_size, p_limit, tools_to_process, calls>>

\* the loop body without `if shutdown_requested: break` after the dispatch
PostDispatchPcNoShutdownBreak ==
    IF script = LocalScheduler
    THEN (IF Lt(now, end_time) /\ ~shutdown_requested THEN "sleep_check"
          ELSE "loop_check")
    ELSE (IF Ge(now, end_time) /\ DurationBounded(script, config)
               THEN "after_loop"
          ELSE "sleep_check")

\* the loop body leaving the loop after its first dispatch, whatever the state
PostDispatchPcBreakAlways == "after_loop"

\* the statements between the dispatch and the sleep loop
PostDispatchPc ==
    IF script = LocalScheduler
    THEN (IF shutdown_requested THEN "after_loop"
          ELSE IF Lt(now, end_time) /\ ~shutdown_requested THEN "sleep_check"
          ELSE "loop_check")
    ELSE (IF shutdown_requested THEN "after_loop"
          ELSE IF Ge(now, end_time) /\ DurationBounded(script, config)
               THEN "after_loop"
          ELSE "sleep_check")

PostDispatch ==
    /\ script \in PollingScripts
    /\ pc = "post_dispatch"
    /\ pc' = PostDispatchPc
    /\ sleep_remaining' = IF pc' = "sleep_check" THEN config.interval
                          ELSE sleep_remaining
    /\ resp' = NoResp
    /\ outcome' = NoOutcome
    /\ twin' = [pc |-> pc', ret |-> "None"]
    /\ UNCHANGED <<script, config, now, end_time, shutdown_requested,
                   chunk_sleep, exit_status, killed, fault, validated,
                   fetched, dispatched>>
    /\ UNCHANGED <<sigVars, batchVars>>
    /\ UNCHANGED histVars

\* a statement of the loop body outside the dispatcher raises (for one, print
\* raises OSError when stdout cannot be written): main()'s try statement
\* catches it in enrich-ai-scheduler and enrich-ai and main() returns;
\* local_scheduler has no try statement and the interpreter ends main()
LoopFault ==
    /\ script \in PollingScripts
    /\ pc = "post_dispatch"
    /\ loop_fault' = "OSError"
    /\ pc' = IF script \in {EnrichAiScheduler, EnrichAi} THEN "critical_error"
             ELSE "crashed"
    /\ resp' = NoResp
    /\ outcome' = NoOutcome
    /\ twin' = [pc |-> pc', ret |-> "None"]
    /\ UNCHANGED <<script, config, now, end_time, shutdown_requested,
                   sleep_remaining, chunk_sleep, exit_status, killed, fault,
                   validated, fetched, dispatched>>
    /\ UNCHANGED <<sigVars, batchVars>>
    /\ UNCHANGED <<reported, rpc, flag_starts, slept, chunks>>

\* the sleep loop sleeping in chunks of half the length
ChunkSleepHalved ==
    IF ~(sleep_remaining > 0 /\ ~shutdown_requested) THEN 0
    ELSE Min2(sleep_remaining, SleepChunk \div 2)

\* the sleep loop left after its first chunk
ChunkSleepOnce ==
    IF ~(sleep_remaining > 0 /\ ~shutdown_requested) THEN 0
    ELSE IF sleep_remaining < config.interval THEN 0
    ELSE Min2(sleep_remaining, SleepChunk)

\* the sleep loop sleeping the whole remainder at once
ChunkSleepWhole ==
    IF ~(sleep_remaining > 0 /\ ~shutdown_requested) THEN 0 ELSE sleep_remaining

\* chunk_sleep of one pass of the sleep loop; 0 stands for leaving the loop
ChunkSleep ==
    IF ~(sleep_remaining > 0 /\ ~shutdown_requested) THEN 0
    ELSE IF script = LocalScheduler THEN Min2(sleep_remaining, SleepChunk)
    ELSE IF Ge(now, end_time) /\ DurationBounded(script, config) THEN 0
    ELSE IF DurationBounded(script, config)
         THEN Max2(0, Min2(Min2(sleep_remaining, SleepChunk), end_time - now))
    ELSE Min2(sleep_remaining, SleepChunk)

\* while sleep_remaining > 0 and not shutdown_requested: ... time.sleep(chunk_sleep)
SleepCheck ==
    /\ script \in PollingScripts
    /\ pc = "sleep_check"
    /\ end_time = Infinity => now + ChunkSleep <= MaxClock
    /\ chunk_sleep' = ChunkSleep
    /\ pc' = IF ChunkSleep > 0 THEN "sleeping" ELSE "loop_check"
    /\ twin' = [twin EXCEPT !.pc = pc']
    /\ UNCHANGED <<script, config, now, end_time, shutdown_requested,
                   sleep_remaining, exit_status, killed, fault, validated,
                   fetched, dispatched>>
    /\ UNCHANGED <<lastVars, sigVars, batchVars>>
    /\ UNCHANGED histVars

\* time.sleep returns; sleep_remaining -= chunk_sleep
SleepWake ==
    /\ script \in PollingScripts
    /\ pc = "sleeping"
    /\ now' = now + chunk_sleep
    /\ sleep_remaining' = sleep_remaining - chunk_sleep
    /\ slept' = slept + chunk_sleep
    /\ chunks' = chunks + 1
    /\ pc' = "sleep_check"
    /\ twin' = [twin EXCEPT !.pc = pc']
    /\ UNCHANGED <<script, config, end_time, shutdown_requested, chunk_sleep,
                   exit_status, killed, fault, validated, fetched, dispatched>>
    /\ UNCHANGED <<lastVars, sigVars, batchVars>>
    /\ UNCHANGED <<reported, rpc, loop_fault, flag_starts>>

\* main() returns (after its except/finally where it has one), or the
\* interpreter ends main() with a traceback
Finish ==
    /\ pc \in {"after_loop", "critical_error", "crashed", "batch_done"}
    /\ exit_status' = IF pc = "crashed" THEN 1 ELSE 0
    /\ pc' = "exited"
    /\ twin' = [twin EXCEPT !.pc = pc']
    /\ UNCHANGED <<script, config, now, end_time, shutdown_requested,
                   sleep_remaining, chunk_sleep, killed, fault, validated,
                   fetched, dispatched>>
    /\ UNCHANGED <<lastVars, sigVars, batchVars>>
    /\ UNCHANGED histVars

\* the instants of the current step at which a signal can arrive
SignalInstants ==
    CASE pc = "sleeping" -> {now + o : o \in {x \in SignalOffsets : x <= chunk_sleep}}
      [] pc = "dispatching" ->
           {now + o : o \in {x \in SignalOffsets : x <= Timeout(script)}}
      [] OTHER -> {now}

\* a handler that flips the flag instead of setting it
SignalToggles ==
    /\ script \in PollingScripts
    /\ pc # "exited"
    /\ sigTime = NoTime => now <= MaxSignalClock
    /\ shutdown_requested' = ~shutdown_requested
    /\ IF sigTime = NoTime
       THEN /\ sigTime' \in SignalInstants
            /\ sigPc' = pc
       ELSE UNCHANGED <<sigTime, sigPc>>
    /\ UNCHANGED <<script, config, pc, now, end_time, sleep_remaining,
                   chunk_sleep, exit_status, killed, fault, validated,
                   fetched, dispatched, sigRemaining, twin>>
    /\ UNCHANGED <<lastVars, batchVars>>
    /\ UNCHANGED histVars

\* SIGINT or SIGTERM arrives and signal_handler runs
Signal ==
    /\ script \in PollingScripts
    /\ pc # "exited"
    /\ sigTime = NoTime => now <= MaxSignalClock
    /\ shutdown_requested' = TRUE
    /\ IF sigTime = NoTime
       THEN /\ sigTime' \in SignalInstants
            /\ sigPc' = pc
       ELSE UNCHANGED <<sigTime, sigPc>>
    /\ UNCHANGED <<script, config, pc, now, end_time, sleep_remaining,
                   chunk_sleep, exit_status, killed, fault, validated,
                   fetched, dispatched, sigRemaining, twin>>
    /\ UNCHANGED <<lastVars, batchVars>>
    /\ UNCHANGED histVars


-----------------------------------------------------------------------------
(* git-repo-fetch *)

\* the parse without the test for a value that is zero or negative
ParsedBatchSizeUnchecked(b) ==
    IF b.kind = "int" THEN b.val ELSE DefaultBatchSize

\* batch_size = int(os.getenv("PROCESSING_BATCH_SIZE", "10")) and its fallbacks
ParsedBatchSize(b) ==
    CASE b.kind = "unset" -> DefaultBatchSize
      [] b.kind = "invalid" -> DefaultBatchSize
      [] b.kind = "int" -> IF b.val <= 0 THEN DefaultBatchSize ELSE b.val

ParseBatchSize ==
    /\ script = GitRepoFetch
    /\ pc = "start"
    /\ batch_size' = ParsedBatchSize(config.batch_env)
    /\ pc' = "check_env"
    /\ UNCHANGED <<script, config, now, end_time, shutdown_requested,
                   sleep_remaining, chunk_sleep, exit_status, killed, fault,
                   validated, fetched, dispatched, twin,
                   p_limit, tools_to_process, idx, calls>>
    /\ UNCHANGED <<lastVars, sigVars>>
    /\ UNCHANGED histVars

\* if not all([...]): logging.error(...); return
CheckEnv ==
    /\ script = GitRepoFetch
    /\ pc = "check_env"
    /\ IF validate_config(script, config)
       THEN validated' = "ok" /\ pc' = "create_client"
       ELSE validated' = "rejected" /\ pc' = "exited"
    /\ exit_status' = 0
    /\ UNCHANGED <<script, config, now, end_time, shutdown_requested,
                   sleep_remaining, chunk_sleep, killed, fault,
                   fetched, dispatched, twin>>
    /\ UNCHANGED <<lastVars, sigVars, batchVars>>
    /\ UNCHANGED histVars

\* create_client(...), which may raise: logged, return
CreateClient ==
    /\ script = GitRepoFetch
    /\ pc = "create_client"
    /\ \E ok \in BOOLEAN : pc' = IF ok THEN "query" ELSE "exited"
    /\ exit_status' = 0
    /\ UNCHANGED <<script, config, now, end_time, shutdown_requested,
                   sleep_remaining, chunk_sleep, killed, fault, validated,
                   fetched, dispatched, twin>>
    /\ UNCHANGED <<lastVars, sigVars, batchVars>>
    /\ UNCHANGED histVars

\* the RPC outcomes that are failures of the query: an HTTP status error or
\* another exception raised by execute(), a truthy response.error
RpcFailures == {"http_status_error", "exception", "error_attr"}

\* the level of the line the RPC handling logs before it returns or goes on
RpcLog(kind) ==
    CASE kind \in RpcFailures -> "error"
      [] kind = "no_data_attr" -> "error"
      [] OTHER -> "info"

\* the RPC handling without the test of response.error
ToolsAfterRpcNoErrorCheck(kind, data) ==
    IF kind \in {"data_list", "error_attr"} THEN data ELSE <<>>

\* tools_to_process after the RPC; <<>> also stands for the early returns
ToolsAfterRpc(kind, data) == IF kind = "data_list" THEN data ELSE <<>>

\* supabase.rpc('get_existing_tools_to_update_batched', {'p_limit': batch_size})
\* and the handling of its result, up to `if not tools_to_process: return`
Query ==
    /\ script = GitRepoFetch
    /\ pc = "query"
    /\ fetched' = TRUE
    /\ p_limit' = batch_size
    /\ \E kind \in RpcKinds, data \in RecordLists :
         /\ kind \notin {"data_list", "error_attr"} => data = <<>>
         /\ rpc' = kind
         /\ tools_to_process' = ToolsAfterRpc(kind, data)
    /\ idx' = 1
    /\ pc' = IF tools_to_process' = <<>> THEN "exited" ELSE "for_loop"
    /\ exit_status' = 0
    /\ UNCHANGED <<script, config, now, end_time, shutdown_requested,
                   sleep_remaining, chunk_sleep, killed, fault, validated,
                   dispatched, twin, batch_size, calls>>
    /\ UNCHANGED <<lastVars, sigVars>>
    /\ UNCHANGED <<reported, loop_fault, flag_starts, slept, chunks>>

\* the skip test looking at raw_tool_id only
SkippedWithoutIdOnly(tool_data) == ~tool_data.raw_tool_id

\* if not raw_tool_id or not html_url: continue
Skipped(tool_data) == ~tool_data.raw_tool_id \/ ~tool_data.html_url

\* for tool_data in tools_to_process: skip the record or send its request
ForLoop ==
    /\ script = GitRepoFetch
    /\ pc = "for_loop"
    /\ IF idx > Len(tools_to_process)
       THEN pc' = "batch_done" /\ UNCHANGED <<idx, calls, dispatched>>
       ELSE IF Skipped(tools_to_process[idx])
       THEN pc' = "for_loop" /\ idx' = idx + 1 /\ UNCHANGED <<calls, dispatched>>
       ELSE /\ pc' = "dispatching"
            /\ calls' = Append(calls, idx)
            /\ dispatched' = TRUE
            /\ UNCHANGED idx
    /\ resp' = NoResp
    /\ outcome' = NoOutcome
    /\ UNCHANGED <<script, config, now, end_time, shutdown_requested,
                   sleep_remaining, chunk_sleep, exit_status, killed, fault,
                   validated, fetched, twin, batch_size, p_limit,
                   tools_to_process>>
    /\ UNCHANGED sigVars
    /\ UNCHANGED histVars

\* SIGINT or SIGTERM arrives: git-repo-fetch installs no handler, so SIGTERM
\* ends the process and SIGINT raises KeyboardInterrupt, which no
\* `except Exception` catches; a request in flight is abandoned
KillBySignal ==
    /\ script = GitRepoFetch
    /\ pc # "exited"
    /\ killed' = TRUE
    /\ sigTime' = now
    /\ sigPc' = pc
    /\ exit_status' = 1
    /\ pc' = "exited"
    /\ UNCHANGED <<script, config, now, end_time, shutdown_requested,
                   sleep_remaining, chunk_sleep, fault, validated, fetched,
                   dispatched, sigRemaining, twin>>
    /\ UNCHANGED <<lastVars, batchVars>>
    /\ UNCHANGED histVars

-----------------------------------------------------------------------------

Next ==
    \/ Validate
    \/ LoopCheck
    \/ DispatchStart
    \/ DispatchReturn
    \/ PostDispatch
    \/ LoopFault
    \/ SleepCheck
    \/ SleepWake
    \/ Finish
    \/ Signal
    \/ ParseBatchSize
    \/ CheckEnv
    \/ CreateClient
    \/ Query
    \/ ForLoop
    \/ KillBySignal

Spec == Init /\ [][Next]_vars


-----------------------------------------------------------------------------
(* Properties *)

Polling == script \in PollingScripts
Running == Polling /\ validated = "ok"
\* total run duration D in seconds and tick interval T
D == config.hours * SecondsPerHour
T == config.interval

\* C1 (as stated): a run with duration D > 0 and tick interval T, whose
\* dispatches return within the request timeout, has terminated by
\* D + T + 10 seconds after its start: its clock never reads more.
C1_EndsWithinDTPlusChunk ==
    (Running /\ DurationBounded(script, config)) => now <= D + T + SleepChunk

\* C1 (amended): such a run has terminated by D + max(T + 10, request timeout)
\* seconds after its start.
C1_EndsWithinDPlusMaxOfTickAndTimeout ==
    (Running /\ DurationBounded(script, config))
        => now <= D + Max2(T + SleepChunk, Timeout(script))

\* a bounded run that ran into its deadline and exited without any signal
C1_Witness ==
    /\ Running /\ DurationBounded(script, config)
    /\ pc = "exited" /\ ~shutdown_requested
    /\ now > D

\* time from the first signal to the present instant
SinceSignal == now - sigTime

\* C2 (as stated): once a signal has arrived, whatever main() was doing, the
\* run is over within max(10 s, time remaining in the dispatch in flight).
C2_StopsWithinChunkOrInFlight ==
    (Polling /\ sigTime # NoTime) => SinceSignal <= Max2(SleepChunk, sigRemaining)

\* C2 (amended): the run is over within max(10 s, time remaining in the
\* dispatch in flight), or, when the signal arrives between the loop check
\* and the start of that tick's dispatch, within the request timeout of that
\* one dispatch.
C2_StopsWithinChunkInFlightOrOneDispatch ==
    (Polling /\ sigTime # NoTime)
        => SinceSignal <= IF sigPc = "call" THEN Timeout(script)
                          ELSE Max2(SleepChunk, sigRemaining)

\* interval 5 s, unbounded duration, signal at t = 12 s during a sleep chunk:
\* the run has stopped, and not after t = 22 s
C2_Witness ==
    /\ script = EnrichAiScheduler /\ T = 5 /\ config.hours = 0
    /\ sigTime = 12 /\ sigPc = "sleeping"
    /\ pc = "exited" /\ now <= 22


\* C3 (as stated): in every script a signal is turned into a shutdown
\* request and never aborts a dispatch in flight: the process is not ended
\* with the request outstanding, and after a signal that arrived during a
\* dispatch main() neither sleeps nor starts another dispatch.
C3_SignalNeverAbortsDispatch ==
    sigPc = "dispatching"
        => /\ ~killed
           /\ shutdown_requested
           /\ pc \in {"dispatching", "post_dispatch", "after_loop",
                     "critical_error", "crashed", "exited"}

\* C4 (as stated): in every script a rejected configuration means no fetch,
\* no dispatch and, once the process has exited, a non-zero exit status.
C4_RejectedConfigExitsNonZero ==
    validated = "rejected"
        => /\ ~fetched
           /\ ~dispatched
           /\ pc = "exited" => exit_status # 0

\* what C5 says validate_config rejects
C5_MustReject(s, c) ==
    \/ Falsy(c.url)
    \/ Falsy(c.key)
    \/ s = EnrichAiScheduler /\ PROJECT_ID \in c.url
    \/ s = EnrichAiScheduler /\ (c.interval <= 0 \/ c.hours < 0)
    \/ s = EnrichAi /\ (URL_PLACEHOLDER \in c.url \/ KEY_PLACEHOLDER \in c.key)

\* C5 (as stated): validate_config of enrich-ai-scheduler and enrich-ai rejects
\* exactly the configurations with an empty or placeholder/default endpoint,
\* an empty or placeholder key, a non-positive interval or a negative
\* duration; in enrich-ai-scheduler an endpoint containing the default
\* project id is rejected and one not containing it is accepted.
C5_ValidateRejectsPlaceholders ==
    (script \in {EnrichAiScheduler, EnrichAi} /\ validated # "pending")
        => (validated = "rejected" <=> C5_MustReject(script, config))

\* PROCESSING_BATCH_SIZE is an integer that is zero or negative
NonPositiveBatchEnv ==
    script = GitRepoFetch /\ config.batch_env.kind = "int" /\ config.batch_env.val <= 0

\* C6 (as stated): a configured batch size that is zero or negative aborts
\* git-repo-fetch before the batch-selection query: no fetch, no dispatch.
C6_NonPositiveBatchSizeIsFatal ==
    NonPositiveBatchEnv => (~fetched /\ ~dispatched /\ pc \in {"start", "check_env", "exited"})

\* C6 (amended): a configured batch size that is zero or negative is not
\* fatal: once parsed, batch_size is the default 10, and the batch-selection
\* query, when issued, carries p_limit = 10.
C6_NonPositiveBatchSizeDefaultsTo10 ==
    NonPositiveBatchEnv
        => /\ (sigPc # "start" /\ pc # "start") => batch_size = DefaultBatchSize
           /\ fetched => p_limit = DefaultBatchSize

\* PROCESSING_BATCH_SIZE = 0 or negative, and the run went on to query and dispatch
C6_Witness ==
    NonPositiveBatchEnv /\ fetched /\ dispatched /\ p_limit = DefaultBatchSize

\* the DispatchOutcome variant the first-match policy gives a response
ExpectedVariant(r) ==
    CASE r.transport # "ok" -> "TransportError"
      [] ~IsSuccess(r.status) -> "RemoteError"
      [] r.body = "dict_marker" -> "SkippedByRemote"
      [] OTHER -> "Success"

\* the DispatchOutcome variants a dispatcher's return value and log lines report
ReportedVariants(o) ==
    (IF o.ret = "True" \/ "successfully processed" \in o.logs
     THEN {"Success"} ELSE {})
    \cup (IF "no pending tools" \in o.logs \/ "skipped" \in o.logs
          THEN {"SkippedByRemote"} ELSE {})
    \cup (IF o.caught = "requests.HTTPError" \/ "error processing" \in o.logs
          THEN {"RemoteError"} ELSE {})
    \cup (IF o.caught \notin {"none", "requests.HTTPError"}
          THEN {"TransportError"} ELSE {})

\* C7 (as stated): every (transport result, status, body) is reported as
\* exactly one variant, the one the first-match order timeout, transport
\* failure, non-success status, skipped marker gives; a success-range
\* response with the skipped marker is SkippedByRemote and never Success.
C7_ClassificationFirstMatch ==
    resp # NoResp => ReportedVariants(outcome) = {ExpectedVariant(resp)}

\* C8 (as stated): in every script a request that completes with a
\* success-range status and no skipped marker, its body a JSON object or not
\* JSON at all, is reported as Success and never as an error.
C8_SuccessRangeIsSuccess ==
    (resp.transport = "ok" /\ IsSuccess(resp.status) /\ resp.body \in {"dict", "not_json"})
        => /\ ReportedVariants(outcome) = {"Success"}
           /\ outcome.ret # "False"

C10_OutcomeDoesNotSteerControl ==
    Polling => twin.pc = pc

\* one run's dispatch returned True, the twin's returned False
C10_Witness ==
    /\ Polling /\ pc = "post_dispatch"
    /\ outcome.ret = "True" /\ twin.ret = "False"

\* positions in the batch of the work items: the records that carry both an
\* id and a target URL
WorkItems(tools) ==
    SelectSeq([i \in 1..Len(tools) |-> i], LAMBDA i : ~Skipped(tools[i]))

IsPrefix(a, b) == Len(a) <= Len(b) /\ SubSeq(b, 1, Len(a)) = a

\* a request of the batch script is outstanding
InFlight == pc = "dispatching" \/ (killed /\ sigPc = "dispatching")

\* C11: in the one tick of git-repo-fetch the calls made so far are the first
\* work items of the batch, in batch order and each once; at most one call
\* is outstanding and every earlier one has logged its outcome; and when the
\* for loop is over every work item has been called, whatever the outcomes
\* of the calls before it (error status, timeout, transport failure).
C11_BatchDispatchedInOrderOnce ==
    script = GitRepoFetch
        => /\ IsPrefix(calls, WorkItems(tools_to_process))
           /\ Len(calls) = Len(reported) + (IF InFlight THEN 1 ELSE 0)
           /\ pc = "batch_done" => calls = WorkItems(tools_to_process)

\* a batch of 3 work items whose calls ended Success, RemoteError, Success:
\* all 3 calls were made, in order
C11_Witness ==
    /\ script = GitRepoFetch /\ pc = "batch_done"
    /\ Len(tools_to_process) = 3
    /\ calls = <<1, 2, 3>>
    /\ reported = <<"processed", "error", "processed">>

\* the batch-selection query of git-repo-fetch failed
FetchFailed == script = GitRepoFetch /\ rpc \in RpcFailures

\* C12 (as stated): when the batch-selection query fails, the tick makes no
\* dispatch and the run continues: the process does not end because of it.
C12_FetchFailureRunContinues ==
    FetchFailed => /\ calls = <<>>
                   /\ pc = "exited" => killed

\* C12 (amended): when the batch-selection query fails, the failure is logged
\* as an error, no dispatch is made, and the run ends there: main() returns
\* and the process exits with status 0 (unless a signal ended it).
C12_FetchFailureEndsRun ==
    FetchFailed => /\ RpcLog(rpc) = "error"
                   /\ calls = <<>> /\ ~dispatched
                   /\ pc = "exited"
                   /\ ~killed => exit_status = 0

\* the RPC raised a transport error; the script has exited with status 0
\* without a dispatch
C12_Witness ==
    /\ FetchFailed /\ rpc = "exception"
    /\ pc = "exited" /\ ~killed /\ exit_status = 0 /\ ~dispatched

\* C13 (as stated): in every polling script each sleep chunk lasts exactly
\* min(remaining sleep, time until the deadline, 10) seconds; no chunk is
\* longer than 10 seconds and no chunk ends after the deadline instant.
C13_ChunkIsMinOfRemainingDeadlineAnd10 ==
    (Polling /\ pc = "sleeping")
        => /\ chunk_sleep =
                IF DurationBounded(script, config)
                THEN Min2(Min2(sleep_remaining, SleepChunk), end_time - now)
                ELSE Min2(sleep_remaining, SleepChunk)
           /\ chunk_sleep <= SleepChunk
           /\ DurationBounded(script, config) => now + chunk_sleep <= end_time

\* C14: a dispatch is started only by a tick whose loop check found the clock
\* before the deadline and no shutdown requested: the clock is before the
\* deadline whenever a dispatch is about to start or starts, a flag that is
\* set at that point was set after the check, and a run signalled before its
\* first loop check never dispatches.
C14_NoDispatchAtOrAfterDeadline ==
    Polling
        => /\ pc \in {"call", "dispatching"} => Lt(now, end_time)
           /\ (pc = "call" /\ shutdown_requested) => sigPc = "call"
           /\ (sigTime = 0 /\ sigPc \in {"start", "loop_check"}) => ~dispatched

\* a wait was cut at the deadline instant and the loop check that followed
\* started no tick
C14_Witness ==
    /\ Running /\ DurationBounded(script, config) /\ dispatched
    /\ pc = "after_loop" /\ now = end_time /\ sleep_remaining > 0
    /\ ~shutdown_requested

\* a run that passed validation has terminated
Terminated == validated = "ok" /\ pc = "exited"

\* an exception ended the tick body, or a signal ended the process
Faulted == fault # "none" \/ loop_fault # "none" \/ killed

\* git-repo-fetch could not create its client or its query did not succeed
NoBatch == script = GitRepoFetch /\ (~fetched \/ RpcLog(rpc) = "error")

\* C15 (as stated): a run that passed validation has terminated only if
\* shutdown was requested, the deadline has passed, or a fault occurred in
\* the tick body (a failed client or query counted as one); the batch script
\* does not terminate merely because its batch has been processed.
C15_TerminatesOnlyOnShutdownDeadlineOrFault ==
    Terminated
        => shutdown_requested \/ Ge(now, end_time) \/ Faulted \/ NoBatch

\* C15 (amended): a polling run that passed validation has terminated only if
\* shutdown was requested, the deadline has passed or a fault occurred in the
\* tick body (so with duration 0, end_time being infinite, only on shutdown
\* or fault); git-repo-fetch, which has no deadline and no shutdown flag,
\* terminates after its single tick: when the batch is empty or when the for
\* loop has passed the last record, every work item called.
C15_TerminatesOnReasonOrAfterSingleBatch ==
    Terminated
        => IF Polling
           THEN shutdown_requested \/ Ge(now, end_time) \/ Faulted
           ELSE \/ Faulted \/ NoBatch
                \/ tools_to_process = <<>>
                \/ /\ idx > Len(tools_to_process)
                   /\ calls = WorkItems(tools_to_process)

\* git-repo-fetch has exited after processing its batch, with no shutdown
\* request, no deadline and no fault
C15_Witness ==
    /\ script = GitRepoFetch /\ Terminated /\ ~Faulted /\ ~NoBatch
    /\ calls # <<>> /\ idx > Len(tools_to_process)
    /\ ~shutdown_requested /\ end_time = Infinity

\* C16 (as stated): once validation has passed, every polling script exits
\* with status 0, whether it stopped at the deadline, on a shutdown request
\* or on a fault raised inside the loop body.
C16_ValidatedRunExitsZero ==
    (Polling /\ Terminated) => exit_status = 0

\* C17: the shutdown flag is monotone, no step of the loop, of the dispatcher
\* or of a later signal takes it from true back to false, and end_time keeps
\* the value main() computed from its start time: no step changes it.
C17_FlagMonotoneDeadlineFixed ==
    /\ [](Running => end_time = EndTime(script, config, 0))
    /\ [][/\ shutdown_requested => shutdown_requested'
          /\ validated = "ok" => end_time' = end_time]_vars

\* a bounded run was signalled during a sleep, went on through its loop
\* checks and has exited with the flag still set and end_time as computed
C17_Witness ==
    /\ Running /\ DurationBounded(script, config) /\ dispatched
    /\ sigPc = "sleeping" /\ pc = "exited"
    /\ shutdown_requested /\ end_time = D

\* C18 (as stated): the calls git-repo-fetch makes in its tick never number
\* more than the batch size it asked the query for (p_limit), whatever list
\* of records the query returns.
C18_DispatchesBoundedByBatchSize ==
    (script = GitRepoFetch /\ fetched) => Len(calls) <= p_limit

\* C19: wherever the signal handler runs between the steps of the polling
\* loop, at most one dispatch is started with the shutdown flag already set,
\* and only by the tick whose loop check had passed when the first signal
\* arrived; after a dispatch that returned with the flag set (the signal came
\* before, during or right after it) main() starts no sleep chunk.
C19_AtMostOneDispatchAfterFlag ==
    Polling
        => /\ flag_starts <= 1
           /\ flag_starts = 1 => sigPc = "call"
           /\ sigPc \in {"call", "dispatching", "post_dispatch"}
                => pc \notin {"sleep_check", "sleeping"}

\* the first signal arrived between the loop check and the call: that one
\* dispatch was started with the flag set, and the run has ended
C19_Witness ==
    /\ Polling /\ sigPc = "call" /\ flag_starts = 1
    /\ pc = "exited" /\ slept = 0

\* C20: in every polling script a dispatch other than the first of the run
\* starts only after sleep chunks that add up to exactly the tick interval
\* since the dispatch before it returned; a wait that shutdown or the
\* deadline cut short, leaving sleep_remaining above 0, is followed by no
\* dispatch.
C20_SleepsWholeIntervalBetweenDispatches ==
    (Polling /\ pc = "call" /\ dispatched)
        => slept = T /\ sleep_remaining = 0

\* a second dispatch is about to start after 30 chunks of 10 s, 300 s in all
C20_Witness ==
    /\ Polling /\ pc = "call" /\ dispatched
    /\ T = 300 /\ slept = 300 /\ now >= 300

\* ceil(interval / 10): the most chunks one wait takes
MaxChunks == (T + SleepChunk - 1) \div SleepChunk

\* C21: the chunked sleep loop terminates: in a run with a positive integer
\* interval sleep_remaining is never negative, every chunk slept makes it
\* strictly smaller, and one wait never takes more than ceil(interval / 10)
\* chunks; it has slept them all when it ends with nothing remaining.
C21_SleepLoopTerminates ==
    /\ [](Running => /\ T > 0
                     /\ sleep_remaining >= 0
                     /\ chunks <= MaxChunks
                     /\ (pc = "sleeping" => chunk_sleep > 0 /\ chunks < MaxChunks))
    /\ [][(Polling /\ pc = "sleeping" /\ pc' = "sleep_check")
              => /\ sleep_remaining' < sleep_remaining
                 /\ sleep_remaining' >= 0]_vars

\* a wait of 25 s has ended after its ceil(25 / 10) = 3 chunks, the last one
\* shorter than 10 s
C21_Witness ==
    /\ Running /\ T = 25 /\ pc = "loop_check"
    /\ chunks = 3 /\ slept = 25 /\ sleep_remaining = 0 /\ chunk_sleep = 0

\* a fetched record without a (truthy) 'raw_tool_id' or 'html_url'
LacksField(rec) == ~(rec.raw_tool_id /\ rec.html_url)

\* the positions client.post was called for, as a set
Called == {calls[k] : k \in 1..Len(calls)}

\* C22: git-repo-fetch makes no HTTP call for a fetched record that lacks
\* 'raw_tool_id' or 'html_url', and skipping it does not stop the batch:
\* once the for loop has passed a position, every record before it that has
\* both fields has been called, and the calls are in batch order.
C22_RecordsLackingFieldsAreSkipped ==
    script = GitRepoFetch
        => /\ \A i \in Called : ~LacksField(tools_to_process[i])
           /\ \A i \in 1..Len(tools_to_process) :
                (i < idx /\ ~LacksField(tools_to_process[i])) => i \in Called
           /\ \A k \in 1..Len(calls) : \A l \in 1..Len(calls) :
                k < l => calls[k] < calls[l]

\* a batch of 3 whose second record has no html_url: the loop has ended with
\* calls for the first and the third record only
C22_Witness ==
    /\ script = GitRepoFetch /\ pc = "batch_done"
    /\ Len(tools_to_process) = 3
    /\ tools_to_process[2] = [raw_tool_id |-> TRUE, html_url |-> FALSE]
    /\ calls = <<1, 3>>

=============================================================================
